---- MODULE Spec2Model ----
(***************************************************************************)
(* Model of src/app.py: a FastAPI application answering read-only queries  *)
(* over one pandas DataFrame `df` that is loaded once at import time.      *)
(*                                                                         *)
(* Text cells and text parameters are sequences of one-character strings,  *)
(* so that str.lower() is computed character by character.  An Optional    *)
(* parameter is None (absent) or Some(v) (present with value v).  Every    *)
(* handler is an `async def` without an await, so it runs to completion on *)
(* the event loop: one handler is one atomic step.                         *)
(***************************************************************************)
EXTENDS Integers, Sequences, FiniteSets, TLC

VARIABLES df, req, resp

vars == <<df, req, resp>>

\* Bounds of the model: rows in the CSV file, and the years -MaxYear..MaxYear.
MaxRows == 2
MaxYear == 1

Years == (0 - MaxYear)..MaxYear

---------------------------------------------------------------------------
\* Python values

None == <<>>
Some(v) == <<v>>
Optional(S) == {None} \cup {Some(v) : v \in S}

\* `if year:` on an Optional[int]: None and 0 are both falsy.
bool_int(o) == o # None /\ o[1] # 0

\* `if country:` on an Optional[str]: None and "" are both falsy.
bool_str(o) == o # None /\ Len(o[1]) > 0

lower_char(c) ==
    CASE c = "A" -> "a"
      [] c = "B" -> "b"
      [] OTHER -> c

\* str.lower()
lower(s) == [i \in 1..Len(s) |-> lower_char(s[i])]

Range(s) == {s[i] : i \in 1..Len(s)}

\* The elements of a set of integers, ascending.
RECURSIVE Ascending(_)
Ascending(S) ==
    IF S = {} THEN <<>>
    ELSE LET m == CHOOSE x \in S : \A y \in S : x <= y
         IN <<m>> \o Ascending(S \ {m})

---------------------------------------------------------------------------
\* The DataFrame

Columns == <<"country", "year", "commodity", "parent_entity", "parent_type", "value">>

\* The text cells that go with a country and a year in the modelled files.
\* Only the float column `value` holds a missing cell ("NaN").
Variants ==
    { [commodity |-> <<"B">>, parent_entity |-> <<"a">>,
       parent_type |-> <<"A", "b">>, value |-> "10.0"],
      [commodity |-> <<"b">>, parent_entity |-> <<"A">>,
       parent_type |-> <<"b">>, value |-> "NaN"] }

Countries == { <<"A", "b">>, <<"a">> }

CsvRows ==
    { [country |-> c, year |-> y, commodity |-> v.commodity,
       parent_entity |-> v.parent_entity, parent_type |-> v.parent_type,
       value |-> v.value] : c \in Countries, y \in Years, v \in Variants }

\* pd.DataFrame(): no columns, no rows.
EmptyDataFrame == [columns |-> <<>>, rows |-> <<>>]

\* pd.read_csv on a readable file with the six-column header.
CsvFrames ==
    { [columns |-> Columns, rows |-> r] :
        r \in UNION { [1..k -> CsvRows] : k \in 0..MaxRows } }

has_column(d, c) == \E i \in 1..Len(d.columns) : d.columns[i] = c

index(d) == 1..Len(d.rows)

\* df[col]
column(d, c) == [i \in index(d) |-> d.rows[i][c]]

\* The comparison with .str.lower() left off the column.
str_eq_cased(d, c, s) == {i \in index(d) : d.rows[i][c] = lower(s)}

\* df[col].str.lower() == s.lower(), as the set of row labels where it is True
str_lower_eq(d, c, s) == {i \in index(d) : lower(d.rows[i][c]) = lower(s)}

\* The membership test with .str.lower() left off the column.
str_isin_cased(d, c, names) ==
    {i \in index(d) : d.rows[i][c] \in {lower(n) : n \in names}}

\* df['country'].str.lower().isin([c.lower() for c in countries])
str_lower_isin(d, c, names) ==
    {i \in index(d) : lower(d.rows[i][c]) \in {lower(n) : n \in names}}

year_eq(d, y) == {i \in index(d) : d.rows[i].year = y}
year_ge(d, y) == {i \in index(d) : d.rows[i].year >= y}
year_le(d, y) == {i \in index(d) : d.rows[i].year <= y}

\* df[query]: the rows whose label is in the mask, in the frame's order.
take(d, query) ==
    LET ix == Ascending(query)
    IN [k \in 1..Len(ix) |-> d.rows[ix[k]]]

\* Series.unique(): distinct values in order of first occurrence.
RECURSIVE unique(_)
unique(s) ==
    IF s = <<>> THEN <<>>
    ELSE LET r == unique(SubSeq(s, 1, Len(s) - 1))
             x == s[Len(s)]
         IN IF x \in Range(r) THEN r ELSE Append(r, x)

isna(c, x) == c = "value" /\ x = "NaN"

\* Series.dropna() of column c
dropna(c, s) ==
    LET keep == Ascending({i \in 1..Len(s) : ~isna(c, s[i])})
    IN [k \in 1..Len(keep) |-> s[keep[k]]]

\* Series.min() / Series.max(): NaN on an empty series
series_min(s) ==
    IF s = <<>> THEN "NaN" ELSE CHOOSE x \in Range(s) : \A y \in Range(s) : x <= y
series_max(s) ==
    IF s = <<>> THEN "NaN" ELSE CHOOSE x \in Range(s) : \A y \in Range(s) : x >= y

is_sorted_by_year(rows) ==
    \A i, j \in 1..Len(rows) : i < j => rows[i].year <= rows[j].year

\* The frame left in the order of the store.
sort_values_skipped(rows) == {rows}

\* sort_values('year') with the default kind='quicksort', which is not a
\* stable sort: every year-sorted arrangement of the rows is a possible result.
sort_values(rows) ==
    { s \in { [k \in 1..Len(rows) |-> rows[p[k]]] : p \in Permutations(1..Len(rows)) } :
        is_sorted_by_year(s) }

---------------------------------------------------------------------------
\* Responses

\* 200 with a list of records (response_model List[CO2Data], to_dict('records'))
Ok(body) == [status |-> 200, body |-> body]
\* 200 with a list of strings (response_model List[str])
OkNames(names) == [status |-> 200, names |-> names]
\* 200 with a dict
OkDict(content) == [status |-> 200, content |-> content]
\* raise HTTPException(status_code=404, detail=...)
HTTPException(detail) == [status |-> 404, detail |-> detail]
\* df[name] on a frame without that column raises KeyError: an unhandled
\* exception, answered with 500 Internal Server Error.
KeyError == [status |-> 500, error |-> "KeyError"]

Idle == [op |-> "idle"]
NoResponse == [status |-> 0]


---------------------------------------------------------------------------
\* Request parameters

\* Names sent by clients: the stored spellings, other letter cases of them,
\* a proper prefix ("a", "A") and a proper suffix ("b") of "Ab".
Names == { <<"A", "b">>, <<"a", "B">>, <<"a">>, <<"A">>, <<"b">> }

\* A query-string value may also be the empty string; a path segment may not.
EmptyStr == <<>>

ColumnNames == Range(Columns) \cup {"bogus"}

---------------------------------------------------------------------------
\* What each handler answers, as a function of the frame and the parameters

\* GET /
root_response ==
    OkDict([status |-> "online", message |-> "API de CO2 por países funcionando",
            version |-> "1.0.0"])

\* GET /countries/
countries_response(d) ==
    IF ~has_column(d, "country") THEN KeyError
    ELSE OkNames(unique(column(d, "country")))

\* GET /country/{country_name}
country_response(d, country_name, year) ==
    IF ~has_column(d, "country") THEN KeyError
    ELSE LET query == IF bool_int(year)
                      THEN str_lower_eq(d, "country", country_name) \cap year_eq(d, year[1])
                      ELSE str_lower_eq(d, "country", country_name)
             country_data == take(d, query)
         IN IF country_data = <<>>
            THEN HTTPException(<<"No se encontraron datos para el país", country_name>>)
            ELSE Ok(country_data)

\* GET /co2_data/
co2_response(d, year, country) ==
    IF ~has_column(d, "year") THEN KeyError
    ELSE LET query == IF bool_str(country)
                      THEN year_eq(d, year) \cap str_lower_eq(d, "country", country[1])
                      ELSE year_eq(d, year)
             data == take(d, query)
         IN IF data = <<>>
            THEN HTTPException(IF bool_str(country)
                               THEN <<"No se encontraron datos para el año", year,
                                      "y país", country[1]>>
                               ELSE <<"No se encontraron datos para el año", year>>)
            ELSE Ok(data)

\* GET /column/{column_name}
column_response(d, column_name) ==
    IF ~has_column(d, column_name)
    THEN HTTPException(<<"Columna no encontrada. Columnas disponibles", d.columns>>)
    ELSE OkDict([c \in {column_name} |-> unique(dropna(column_name, column(d, column_name)))])

\* GET /commodity/{commodity_name}
commodity_response(d, commodity_name, year) ==
    IF ~has_column(d, "commodity") THEN KeyError
    ELSE LET query == IF bool_int(year)
                      THEN str_lower_eq(d, "commodity", commodity_name) \cap year_eq(d, year[1])
                      ELSE str_lower_eq(d, "commodity", commodity_name)
             commodity_data == take(d, query)
         IN IF commodity_data = <<>>
            THEN HTTPException(<<"No se encontraron datos para el commodity", commodity_name>>)
            ELSE Ok(commodity_data)

\* GET /statistics/summary
summary_response(d) ==
    IF ~has_column(d, "country") THEN KeyError
    ELSE OkDict([total_countries |-> Len(unique(column(d, "country"))),
                 year_range |-> [min |-> series_min(column(d, "year")),
                                 max |-> series_max(column(d, "year"))],
                 total_records |-> Len(d.rows),
                 commodities |-> unique(column(d, "commodity")),
                 entity_types |-> unique(column(d, "parent_type"))])

\* GET /entity/{entity_name}
entity_response(d, entity_name, year) ==
    IF ~has_column(d, "parent_entity") THEN KeyError
    ELSE LET query == IF bool_int(year)
                      THEN str_lower_eq(d, "parent_entity", entity_name) \cap year_eq(d, year[1])
                      ELSE str_lower_eq(d, "parent_entity", entity_name)
             entity_data == take(d, query)
         IN IF entity_data = <<>>
            THEN HTTPException(<<"No se encontraron datos para la entidad", entity_name>>)
            ELSE Ok(entity_data)

\* GET /entity_type/{entity_type}
entity_type_response(d, entity_type, year) ==
    IF ~has_column(d, "parent_type") THEN KeyError
    ELSE LET query == IF bool_int(year)
                      THEN str_lower_eq(d, "parent_type", entity_type) \cap year_eq(d, year[1])
                      ELSE str_lower_eq(d, "parent_type", entity_type)
             entity_type_data == take(d, query)
         IN IF entity_type_data = <<>>
            THEN HTTPException(<<"No se encontraron datos para el tipo de entidad", entity_type>>)
            ELSE Ok(entity_type_data)

\* GET /compare_countries/
compare_response(d, countries, year) ==
    IF ~has_column(d, "country") THEN KeyError
    ELSE LET query == IF bool_int(year)
                      THEN str_lower_isin(d, "country", countries) \cap year_eq(d, year[1])
                      ELSE str_lower_isin(d, "country", countries)
             comparison_data == take(d, query)
         IN IF comparison_data = <<>>
            THEN HTTPException(<<"No se encontraron datos para los países especificados">>)
            ELSE Ok(comparison_data)

\* The mask of GET /trends/{country}
trend_query(d, country, start_year, end_year) ==
    (str_lower_eq(d, "country", country)
       \cap (IF bool_int(start_year) THEN year_ge(d, start_year[1]) ELSE index(d)))
       \cap (IF bool_int(end_year) THEN year_le(d, end_year[1]) ELSE index(d))

\* GET /trends/{country}: the answers the sort may produce
trend_responses(d, country, start_year, end_year) ==
    IF ~has_column(d, "country") THEN {KeyError}
    ELSE { IF trend_data = <<>>
           THEN HTTPException(<<"No se encontraron datos para el país", country>>)
           ELSE Ok(trend_data) :
             trend_data \in sort_values(take(d, trend_query(d, country, start_year, end_year))) }

---------------------------------------------------------------------------
\* The handlers.  A handler runs when no request is being answered; it
\* records the request and its answer.  None of them assigns to df.

root ==
    /\ req = Idle
    /\ req' = [op |-> "root"]
    /\ resp' = root_response
    /\ UNCHANGED df

get_countries ==
    /\ req = Idle
    /\ req' = [op |-> "get_countries"]
    /\ resp' = countries_response(df)
    /\ UNCHANGED df

get_country_data ==
    /\ req = Idle
    /\ \E country_name \in Names, year \in Optional(Years) :
         /\ req' = [op |-> "get_country_data", name |-> country_name, year |-> year]
         /\ resp' = country_response(df, country_name, year)
    /\ UNCHANGED df

get_co2_data ==
    /\ req = Idle
    /\ \E year \in Years, country \in Optional(Names \cup {EmptyStr}) :
         /\ req' = [op |-> "get_co2_data", year |-> year, country |-> country]
         /\ resp' = co2_response(df, year, country)
    /\ UNCHANGED df

get_column_data ==
    /\ req = Idle
    /\ \E column_name \in ColumnNames :
         /\ req' = [op |-> "get_column_data", name |-> column_name]
         /\ resp' = column_response(df, column_name)
    /\ UNCHANGED df

get_commodity_data ==
    /\ req = Idle
    /\ \E commodity_name \in Names, year \in Optional(Years) :
         /\ req' = [op |-> "get_commodity_data", name |-> commodity_name, year |-> year]
         /\ resp' = commodity_response(df, commodity_name, year)
    /\ UNCHANGED df

get_statistics_summary ==
    /\ req = Idle
    /\ req' = [op |-> "get_statistics_summary"]
    /\ resp' = summary_response(df)
    /\ UNCHANGED df

get_entity_data ==
    /\ req = Idle
    /\ \E entity_name \in Names, year \in Optional(Years) :
         /\ req' = [op |-> "get_entity_data", name |-> entity_name, year |-> year]
         /\ resp' = entity_response(df, entity_name, year)
    /\ UNCHANGED df

get_entity_type_data ==
    /\ req = Idle
    /\ \E entity_type \in Names, year \in Optional(Years) :
         /\ req' = [op |-> "get_entity_type_data", name |-> entity_type, year |-> year]
         /\ resp' = entity_type_response(df, entity_type, year)
    /\ UNCHANGED df

compare_countries ==
    /\ req = Idle
    /\ \E a \in Names, b \in Names, year \in Optional(Years) :
         /\ req' = [op |-> "compare_countries", countries |-> {a, b}, year |-> year]
         /\ resp' = compare_response(df, {a, b}, year)
    /\ UNCHANGED df

\* A variant of get_trends that sorts the module-level frame itself.
get_trends_inplace ==
    /\ req = Idle
    /\ \E country \in Names, start_year \in Optional(Years), end_year \in Optional(Years) :
         /\ req' = [op |-> "get_trends", name |-> country,
                    start_year |-> start_year, end_year |-> end_year]
         /\ \E sorted \in sort_values(df.rows) :
              /\ df' = [df EXCEPT !.rows = sorted]
              /\ resp' \in trend_responses(df', country, start_year, end_year)

get_trends ==
    /\ req = Idle
    /\ \E country \in Names, start_year \in Optional(Years), end_year \in Optional(Years) :
         /\ req' = [op |-> "get_trends", name |-> country,
                    start_year |-> start_year, end_year |-> end_year]
         /\ resp' \in trend_responses(df, country, start_year, end_year)
    /\ UNCHANGED df

\* The application hands the handler's answer to the client and is ready for
\* the next request.
app ==
    /\ req # Idle
    /\ req' = Idle
    /\ resp' = NoResponse
    /\ UNCHANGED df

\* Module import: read_csv succeeds, or raises and df is the empty fallback.
Init ==
    /\ df \in CsvFrames \cup {EmptyDataFrame}
    /\ req = Idle
    /\ resp = NoResponse

Next ==
    \/ root
    \/ get_countries
    \/ get_country_data
    \/ get_co2_data
    \/ get_column_data
    \/ get_commodity_data
    \/ get_statistics_summary
    \/ get_entity_data
    \/ get_entity_type_data
    \/ compare_countries
    \/ get_trends
    \/ app

Spec == Init /\ [][Next]_vars

---------------------------------------------------------------------------
\* The contract's vocabulary: predicates decided by the presence of a
\* parameter, never by its value.

FilteringOps ==
    {"get_country_data", "get_co2_data", "get_commodity_data", "get_entity_data",
     "get_entity_type_data", "compare_countries", "get_trends"}

YearOptionalOps ==
    {"get_country_data", "get_commodity_data", "get_entity_data",
     "get_entity_type_data", "compare_countries"}

ci_equal(s, t) == lower(s) = lower(t)

year_matches(y, o) == o = None \/ y = o[1]

\* Row r satisfies every predicate that the name part of request q supplies.
name_matches(r, q) ==
    CASE q.op = "get_country_data" -> ci_equal(r.country, q.name)
      [] q.op = "get_commodity_data" -> ci_equal(r.commodity, q.name)
      [] q.op = "get_entity_data" -> ci_equal(r.parent_entity, q.name)
      [] q.op = "get_entity_type_data" -> ci_equal(r.parent_type, q.name)
      [] q.op = "compare_countries" -> \E n \in q.countries : ci_equal(r.country, n)
      [] q.op = "get_trends" -> ci_equal(r.country, q.name)
      [] q.op = "get_co2_data" -> q.country = None \/ ci_equal(r.country, q.country[1])

\* Row r satisfies the AND of all the predicates request q supplies.
satisfies(r, q) ==
    /\ name_matches(r, q)
    /\ CASE q.op = "get_co2_data" -> r.year = q.year
         [] q.op = "get_trends" ->
              /\ q.start_year = None \/ r.year >= q.start_year[1]
              /\ q.end_year = None \/ r.year <= q.end_year[1]
         [] OTHER -> year_matches(r.year, q.year)

expected_rows(d, q) == take(d, {i \in index(d) : satisfies(d.rows[i], q)})

occurrences(x, s) == Cardinality({i \in 1..Len(s) : s[i] = x})

\* s and t hold the same rows, each as many times
same_rows(s, t) ==
    \A x \in Range(s) \cup Range(t) : occurrences(x, s) = occurrences(x, t)

\* The rows an answer returns; an answer without rows returns none.
rows_of(r) == IF r.status = 200 THEN Range(r.body) ELSE {}

\* What the handler of q answers when the year parameter is left out.
answer_without_year(d, q) ==
    CASE q.op = "get_country_data" -> country_response(d, q.name, None)
      [] q.op = "get_commodity_data" -> commodity_response(d, q.name, None)
      [] q.op = "get_entity_data" -> entity_response(d, q.name, None)
      [] q.op = "get_entity_type_data" -> entity_type_response(d, q.name, None)
      [] q.op = "compare_countries" -> compare_response(d, q.countries, None)

swapcase_char(c) ==
    CASE c = "a" -> "A"
      [] c = "A" -> "a"
      [] c = "b" -> "B"
      [] c = "B" -> "b"
      [] OTHER -> c

\* s is t with the case of some letters changed
case_variant(s, t) ==
    /\ Len(s) = Len(t)
    /\ \A i \in 1..Len(s) : s[i] = t[i] \/ s[i] = swapcase_char(t[i])

\* s is, up to letter case, a proper substring (a proper prefix included) of t
proper_part(s, t) ==
    /\ Len(s) < Len(t)
    /\ \E k \in 0..(Len(t) - Len(s)) : case_variant(s, SubSeq(t, k + 1, k + Len(s)))

\* body keeps, for rows of equal year, the order they have in src
is_stable(body, src) ==
    \E p \in Permutations(1..Len(src)) :
        /\ body = [k \in 1..Len(src) |-> src[p[k]]]
        /\ \A i, j \in 1..Len(src) :
              (i < j /\ src[p[i]].year = src[p[j]].year) => p[i] < p[j]

first_at(x, s) == CHOOSE i \in 1..Len(s) : s[i] = x /\ \A j \in 1..(i - 1) : s[j] # x

\* body lists the distinct non-null values of series s, by first occurrence
distinct_in_order(c, body, s) ==
    /\ \A i, j \in 1..Len(body) : i # j => body[i] # body[j]
    /\ Range(body) = {x \in Range(s) : ~isna(c, x)}
    /\ \A i, j \in 1..Len(body) : i < j => first_at(body[i], s) < first_at(body[j], s)

---------------------------------------------------------------------------
\* Claims

\* C1: a filtering operation answers 404 exactly when no row of the store
\* satisfies the AND of the supplied predicates, and otherwise returns exactly
\* the satisfying rows, each once.  Stated for the stores read from a file.
C1_ResultContract ==
    (req.op \in FilteringOps /\ df.columns = Columns) =>
        /\ resp.status = 404 <=> expected_rows(df, req) = <<>>
        /\ expected_rows(df, req) # <<>> =>
              resp.status = 200 /\ same_rows(resp.body, expected_rows(df, req))

\* C2: a year parameter present with value 0 filters: every returned row has
\* year 0, the answer is 404 when no matching row has year 0, and the answer
\* equals the one without the year only if all matching rows have year 0.
\* Stated for the stores read from a file.
C2_YearZeroFilters ==
    (req.op \in YearOptionalOps /\ req.year = Some(0) /\ df.columns = Columns) =>
        /\ \A r \in rows_of(resp) : r.year = 0
        /\ expected_rows(df, req) = <<>> => resp.status = 404
        /\ resp = answer_without_year(df, req) =>
              \A i \in index(df) : name_matches(df.rows[i], req) => df.rows[i].year = 0

\* C3: with the empty fallback store no request faults: filtering operations
\* answer 404, get_countries an empty list, the summary zero counts and null
\* year bounds.
C3_FallbackFaultFree ==
    (df = EmptyDataFrame /\ req # Idle) =>
        /\ resp.status # 500
        /\ req.op \in FilteringOps => resp.status = 404
        /\ req.op = "get_countries" => resp.status = 200 /\ resp.names = <<>>
        /\ req.op = "get_statistics_summary" =>
              /\ resp.status = 200
              /\ resp.content.total_records = 0
              /\ resp.content.total_countries = 0
              /\ resp.content.year_range = [min |-> "NaN", max |-> "NaN"]

C5_CompareIsUnion ==
    req.op = "compare_countries" =>
        rows_of(resp) =
            UNION { rows_of(country_response(df, c, req.year)) : c \in req.countries }

\* A comparison of two countries, each with rows, one named in another case
\* than the stored one.
C5_Witness ==
    /\ req.op = "compare_countries"
    /\ resp.status = 200
    /\ \E a, b \in req.countries :
          /\ ~ci_equal(a, b)
          /\ rows_of(country_response(df, a, req.year)) # {}
          /\ rows_of(country_response(df, b, req.year)) # {}
          /\ \A i \in index(df) : df.rows[i].country # a

\* C6: byCountry(name) without a year returns every row whose country is name
\* in any letter case, and never a row of which name is only a proper
\* substring or prefix.
C6_CountryReflexive ==
    (req.op = "get_country_data" /\ req.year = None) =>
        \A i \in index(df) :
            /\ case_variant(req.name, df.rows[i].country) =>
                  resp.status = 200 /\ df.rows[i] \in Range(resp.body)
            /\ proper_part(req.name, df.rows[i].country) =>
                  df.rows[i] \notin rows_of(resp)

\* byCountry found a row under another letter case of its country, next to a
\* row whose country only contains the name.
C6_Witness ==
    /\ req.op = "get_country_data"
    /\ req.year = None
    /\ resp.status = 200
    /\ \E i \in index(df) :
          /\ df.rows[i].country # req.name
          /\ case_variant(req.name, df.rows[i].country)
          /\ df.rows[i] \in Range(resp.body)
    /\ \E i \in index(df) : proper_part(req.name, df.rows[i].country)

\* C7: columnValues succeeds for each of the six column names in every store,
\* the fallback included, with the distinct non-null values in first-occurrence
\* order, and answers 404 listing the six names for any other name.
C7_ColumnValues ==
    req.op = "get_column_data" =>
        IF req.name \in Range(Columns)
        THEN /\ resp.status = 200
             /\ DOMAIN resp.content = {req.name}
             /\ distinct_in_order(req.name, resp.content[req.name], column(df, req.name))
        ELSE /\ resp.status = 404
             /\ resp.detail[2] = Columns

\* C8: no operation changes the store.
C8_StoreNeverMutated == [][df' = df]_vars

\* trends answered with the rows in another order than the store holds them,
\* and the store is still unsorted.
C8_Witness ==
    /\ req.op = "get_trends"
    /\ resp.status = 200
    /\ resp.body # take(df, trend_query(df, req.name, req.start_year, req.end_year))
    /\ ~is_sorted_by_year(df.rows)

\* C9: in every store the summary's total_records is the number of rows and
\* its total_countries the length of listCountries(), which lists the distinct
\* countries in first-occurrence order.
C9_SummaryCounts ==
    /\ req.op = "get_statistics_summary" =>
          /\ resp.status = 200
          /\ resp.content.total_records = Len(df.rows)
          /\ countries_response(df).status = 200
          /\ resp.content.total_countries = Len(countries_response(df).names)
    /\ req.op = "get_countries" =>
          /\ resp.status = 200
          /\ distinct_in_order("country", resp.names, [i \in index(df) |-> df.rows[i].country])

\* C10: trends returns a row of the country exactly when its year is within
\* the bounds that are present, a bound of 0 included.
C10_TrendsRange ==
    req.op = "get_trends" =>
        \A i \in index(df) :
            ci_equal(df.rows[i].country, req.name) =>
                (df.rows[i] \in rows_of(resp) <=> satisfies(df.rows[i], req))

====
